---------------------------- MODULE Spec2Model ----------------------------
(***************************************************************************)
(* Deep Search PDF Generator.                                              *)
(*                                                                         *)
(*   - src/app/api/deep-search/route.ts, lines 1-145: the deep-search      *)
(*     route, a ReadableStream whose start() runs the eight research       *)
(*     stages and enqueues progress / result / complete frames;            *)
(*   - src/unnamed/part_001: the generate-pdf route, which lays a list of  *)
(*     results out on A4 pages with jsPDF (cover, table of contents, one   *)
(*     page run per section, footer pass).                                 *)
(*                                                                         *)
(* A JavaScript string is a sequence of one-character strings, so that     *)
(* String.prototype.includes and split(' ')[0] are computed, not assumed.  *)
(***************************************************************************)
EXTENDS Integers, Sequences, FiniteSets, TLC

(***************************************************************************)
(* Bounds of the model.                                                    *)
(***************************************************************************)
\* the largest number of result__a anchors in a retrieved page
MaxTitleMatches == 4
\* the largest number of results in a generate-pdf request body
MaxBlocks == 2
\* the largest number of lines splitTextToSize returns for a section title
MaxTitleLines == 2
\* the unit of the number of lines splitTextToSize returns for a section body
MaxContentLines == 40
\* the largest number of words in a query given to synthesizeContent alone
MaxQueryWords == 2
\* the largest number of pieces of the event stream one read of the page
\* returns (a frame is five pieces)
MaxChunkPieces == 10

(***************************************************************************)
(* Strings.                                                                *)
(***************************************************************************)
Min(S) == CHOOSE x \in S : \A y \in S : x <= y

\* String.prototype.includes (route.ts line 70)
Includes(hay, needle) ==
  \E k \in 0..(Len(hay) - Len(needle)) :
     SubSeq(hay, k + 1, k + Len(needle)) = needle

\* q.split(' ')[0] (route.ts line 70)
FirstWord(q) ==
  LET sp == {k \in 1..Len(q) : q[k] = " "}
  IN  IF sp = {} THEN q ELSE SubSeq(q, 1, Min(sp) - 1)

\* The value of the "topic" member of a parsed request body: a JSON string,
\* or undefined when the body has no such member (route.ts line 78).
JString(s) == [kind |-> "string", chars |-> s]
JUndefined == [kind |-> "undefined", chars |-> <<>>]

\* `${topic}`: the template literal's ToString (route.ts lines 42-56, 85-92)
ToStr(v) ==
  IF v.kind = "undefined"
  THEN <<"u", "n", "d", "e", "f", "i", "n", "e", "d">>
  ELSE v.chars

\* The topics a request may carry.
TopicValues ==
  { JUndefined,
    JString(<<>>),
    JString(<<" ">>),
    JString(<<"a", "i">>),
    JString(<<"o", "v", "e", "r", "v", "i", "e", "w">>),
    JString(<<"c", "u", "r", "r", "e", "n", "t">>),
    JString(<<"c", "a", "s", "e">>) }

\* request.json() either rejects (a body that is not JSON) or yields an object
RequestBodies ==
  {[json |-> FALSE, topic |-> JUndefined]}
    \cup {[json |-> TRUE, topic |-> t] : t \in TopicValues}

(***************************************************************************)
(* The stage catalog (route.ts lines 84-93).                               *)
(***************************************************************************)
QueryPhrases ==
  << <<"o", "v", "e", "r", "v", "i", "e", "w", " ", "a", "n", "d", " ",
       "i", "n", "t", "r", "o", "d", "u", "c", "t", "i", "o", "n">>,
     <<"h", "i", "s", "t", "o", "r", "i", "c", "a", "l", " ",
       "d", "e", "v", "e", "l", "o", "p", "m", "e", "n", "t">>,
     <<"c", "u", "r", "r", "e", "n", "t", " ", "t", "r", "e", "n", "d", "s",
       " ", "a", "n", "d", " ",
       "i", "n", "n", "o", "v", "a", "t", "i", "o", "n", "s">>,
     <<"p", "r", "a", "c", "t", "i", "c", "a", "l", " ",
       "a", "p", "p", "l", "i", "c", "a", "t", "i", "o", "n", "s">>,
     <<"c", "h", "a", "l", "l", "e", "n", "g", "e", "s", " ", "a", "n", "d",
       " ", "l", "i", "m", "i", "t", "a", "t", "i", "o", "n", "s">>,
     <<"f", "u", "t", "u", "r", "e", " ",
       "p", "r", "o", "s", "p", "e", "c", "t", "s">>,
     <<"b", "e", "s", "t", " ", "p", "r", "a", "c", "t", "i", "c", "e", "s">>,
     <<"c", "a", "s", "e", " ", "s", "t", "u", "d", "i", "e", "s", " ",
       "a", "n", "d", " ", "e", "x", "a", "m", "p", "l", "e", "s">> >>

Perspectives ==
  << "Overview & Fundamentals", "Historical Context", "Current Trends",
     "Practical Applications", "Challenges & Considerations",
     "Future Outlook", "Best Practices", "Case Studies" >>

\* searchQueries, indexed from 1 (searchQueries[i] of the code is
\* searchQueries(t)[i + 1])
searchQueries(t) ==
  [k \in 1..Len(QueryPhrases) |->
     [query |-> ToStr(t) \o <<" ">> \o QueryPhrases[k],
      perspective |-> Perspectives[k]]]

\* searchQueries.length
NumStages == Len(QueryPhrases)

(***************************************************************************)
(* synthesizeContent (route.ts lines 39-74).                               *)
(***************************************************************************)
\* Object.keys(perspectives), in insertion order
PerspectiveKeys ==
  << "overview", "history", "current_trends", "applications",
     "challenges", "future", "best_practices", "case_studies" >>

\* how many times ${topic} occurs in each template (lines 42-56)
TopicOccurrences ==
  [overview |-> 2, history |-> 2, current_trends |-> 1, applications |-> 2,
   challenges |-> 1, future |-> 2, best_practices |-> 1, case_studies |-> 1]

\* perspectives[key]: the fixed text of the template `key` with the topic
\* substituted at each of its occurrences
Template(key, t) ==
  [key |-> key, args |-> [k \in 1..TopicOccurrences[key] |-> ToStr(t)]]

\* the `queries` array of synthesizeContent (lines 59-68)
SynthQueries ==
  << <<"o", "v", "e", "r", "v", "i", "e", "w", " ", "a", "n", "d", " ",
       "i", "n", "t", "r", "o", "d", "u", "c", "t", "i", "o", "n">>,
     <<"h", "i", "s", "t", "o", "r", "i", "c", "a", "l", " ",
       "d", "e", "v", "e", "l", "o", "p", "m", "e", "n", "t">>,
     <<"c", "u", "r", "r", "e", "n", "t", " ", "t", "r", "e", "n", "d", "s">>,
     <<"p", "r", "a", "c", "t", "i", "c", "a", "l", " ",
       "a", "p", "p", "l", "i", "c", "a", "t", "i", "o", "n", "s">>,
     <<"c", "h", "a", "l", "l", "e", "n", "g", "e", "s", " ", "a", "n", "d",
       " ", "l", "i", "m", "i", "t", "a", "t", "i", "o", "n", "s">>,
     <<"f", "u", "t", "u", "r", "e", " ",
       "p", "r", "o", "s", "p", "e", "c", "t", "s">>,
     <<"b", "e", "s", "t", " ", "p", "r", "a", "c", "t", "i", "c", "e", "s">>,
     <<"c", "a", "s", "e", " ", "s", "t", "u", "d", "i", "e", "s", " ",
       "a", "n", "d", " ", "e", "x", "a", "m", "p", "l", "e", "s">> >>

\* queries.findIndex(q => query.includes(q.split(' ')[0])), 0-based, -1 when
\* no element matches
FindIndex(query) ==
  LET hits == {k \in 1..Len(SynthQueries) :
                 Includes(query, FirstWord(SynthQueries[k]))}
  IN  IF hits = {} THEN -1 ELSE Min(hits) - 1

\* the mutant of KeyAt that reads the keys as .at(index) does, from the end
\* for a negative index
KeyAtFromEnd(index) ==
  IF index \in 0..(Len(PerspectiveKeys) - 1)
  THEN PerspectiveKeys[index + 1]
  ELSE PerspectiveKeys[Len(PerspectiveKeys)]

\* Object.keys(perspectives)[index] || 'overview'
KeyAt(index) ==
  IF index \in 0..(Len(PerspectiveKeys) - 1)
  THEN PerspectiveKeys[index + 1]
  ELSE "overview"

synthesizeContent(t, query) == Template(KeyAt(FindIndex(query)), t)


(***************************************************************************)
(* fetchSearchResults (route.ts lines 8-37).  The outcome of the fetch is  *)
(* the environment's: fetch or response.text() throws, the response is not *)
(* ok, or it is ok and the page holds `titles` result__a anchors.          *)
(***************************************************************************)
FetchOutcomes ==
  {[kind |-> "throws", titles |-> 0], [kind |-> "notOk", titles |-> 0]}
    \cup {[kind |-> "ok", titles |-> n] : n \in 0..MaxTitleMatches}

\* the cap of line 24: Math.min(titleMatches.length, 3)
MaxResults == 3

\* the mutant of fetchSearchResults without the try of line 9: a failed
\* fetch reaches the caller
fetchSearchResultsRethrows(outcome) ==
  [threw |-> outcome.kind = "throws",
   results |-> IF outcome.kind = "ok"
               THEN (IF outcome.titles < MaxResults
                     THEN outcome.titles ELSE MaxResults)
               ELSE 0]

\* What the call does to its caller: it never throws (the try of line 9
\* encloses the whole body), and returns the results (here their number),
\* [] when there are none.
fetchSearchResults(outcome) ==
  [threw |-> FALSE,
   results |-> IF outcome.kind = "ok"
               THEN (IF outcome.titles < MaxResults
                     THEN outcome.titles ELSE MaxResults)
               ELSE 0]

(***************************************************************************)
(* The frames POST enqueues (route.ts lines 99-103, 115-123, 127-128).     *)
(* Every frame has the three members, the unused ones empty, so that       *)
(* frames of different types compare.                                      *)
(***************************************************************************)
NoMessage == [perspective |-> "", n |-> 0, of |-> 0]
NoContent == [key |-> "", args |-> <<>>]
NoResult == [title |-> "", content |-> NoContent, source |-> <<"", "">>]

\* progressData of stage i (0-based):
\* `Searching: ${perspective} (${i + 1}/${searchQueries.length})...`
ProgressData(t, k) ==
  [type |-> "progress",
   message |-> [perspective |-> searchQueries(t)[k + 1].perspective,
                n |-> k + 1, of |-> NumStages],
   result |-> NoResult]

\* resultData of stage i (0-based) with the synthesized content
ResultData(t, k, c) ==
  [type |-> "result",
   message |-> NoMessage,
   result |-> [title |-> searchQueries(t)[k + 1].perspective,
               content |-> c,
               source |-> <<"Deep Research Analysis - ",
                            searchQueries(t)[k + 1].perspective>>]]

CompleteData == [type |-> "complete", message |-> NoMessage, result |-> NoResult]

(***************************************************************************)
(* State.                                                                  *)
(***************************************************************************)
VARIABLES
  pc,             \* where POST / start() of the deep-search route stands
  topic,          \* const { topic } = await request.json()
  i,              \* the loop variable of line 95
  content,        \* const content of line 109
  fetchOutcome,   \* the outcome of the retrieval call of the current stage
  retrievalCalls, \* the stages (0-based) whose query was passed to fetch
  thrown,         \* the exception caught at line 131, "none" before
  emitted,        \* the frames controller.enqueue accepted, in order
  queue,          \* the stream's internal queue: enqueued, not yet read
  delivered,      \* the frames the consumer of the Response body has read
  streamState,    \* the ReadableStream's state
  closeRequested, \* controller.close() was called
  storedError,    \* the reason the stream was errored with, "none" before
  cancelled       \* the consumer cancelled the stream

searchVars ==
  <<pc, topic, i, content, fetchOutcome, retrievalCalls, thrown, emitted,
    queue, delivered, streamState, closeRequested, storedError, cancelled>>

NoOutcome == [kind |-> "none", titles |-> 0]

SearchInit ==
  /\ pc = "idle"
  /\ topic = JUndefined
  /\ i = 0
  /\ content = NoContent
  /\ fetchOutcome = NoOutcome
  /\ retrievalCalls = <<>>
  /\ thrown = "none"
  /\ emitted = <<>>
  /\ queue = <<>>
  /\ delivered = <<>>
  /\ streamState = "none"
  /\ closeRequested = FALSE
  /\ storedError = "none"
  /\ cancelled = FALSE

(***************************************************************************)
(* The stream controller (the calls of route.ts lines 103, 123, 128, 130,  *)
(* 133), with the behaviour the Streams standard gives them.               *)
(***************************************************************************)
\* the mutant of CanCloseOrEnqueue under which the producer never learns
\* that the stream was closed under it
CanCloseOrEnqueueBlind == ~closeRequested

\* enqueue and close throw a TypeError unless the stream is readable and no
\* close was requested
CanCloseOrEnqueue == streamState = "readable" /\ ~closeRequested

\* controller.enqueue(frame), which does not throw
Enqueue(frame) ==
  /\ emitted' = Append(emitted, frame)
  /\ queue' = Append(queue, frame)

\* what the catch clause of lines 131-134 does with the loop: it ends it
AfterCatch == "done"

\* the mutant of LoopContinues that stops one stage early
LoopContinuesShort(k) == k < NumStages - 1

\* the loop test of line 95 for the incremented i
LoopContinues(k) == k < NumStages

Throw(reason) ==
  /\ thrown' = reason
  /\ pc' = "catch"

(***************************************************************************)
(* POST of the deep-search route (route.ts lines 76-145).                  *)
(***************************************************************************)
\* lines 77-80: request.json() rejects on a body that is not JSON, before
\* the stream exists; otherwise the stream is made and start() begins
POST(body) ==
  /\ pc = "idle"
  /\ IF body.json
     THEN /\ topic' = body.topic
          /\ streamState' = "readable"
          /\ pc' = "build"
     ELSE /\ pc' = "rejected"
          /\ UNCHANGED <<topic, streamState>>
  /\ UNCHANGED <<i, content, fetchOutcome, retrievalCalls, thrown, emitted,
                 queue, delivered, closeRequested, storedError, cancelled>>

\* lines 84-95: the catalog is built and the loop entered, or building the
\* strings throws a RangeError (string length, allocation)
BuildCatalog ==
  /\ pc = "build"
  /\ \/ /\ pc' = "progress"
        /\ i' = 0
        /\ UNCHANGED thrown
     \/ /\ Throw("RangeError")
        /\ UNCHANGED i
  /\ UNCHANGED <<topic, content, fetchOutcome, retrievalCalls, emitted,
                 queue, delivered, streamState, closeRequested, storedError,
                 cancelled>>

\* lines 96-103: the progress frame of stage i
SendProgress ==
  /\ pc = "progress"
  /\ IF CanCloseOrEnqueue
     THEN /\ Enqueue(ProgressData(topic, i))
          /\ pc' = "fetch"
          /\ UNCHANGED thrown
     ELSE /\ Throw("TypeError")
          /\ UNCHANGED <<emitted, queue>>
  /\ UNCHANGED <<topic, i, content, fetchOutcome, retrievalCalls, delivered,
                 streamState, closeRequested, storedError, cancelled>>

\* line 106, the call: fetch is given the query of stage i
CallFetch ==
  /\ pc = "fetch"
  /\ \E o \in FetchOutcomes : fetchOutcome' = o
  /\ retrievalCalls' = Append(retrievalCalls, i)
  /\ pc' = "awaitFetch"
  /\ UNCHANGED <<topic, i, content, thrown, emitted, queue, delivered,
                 streamState, closeRequested, storedError, cancelled>>

\* line 106, the await: fetchSearchResults settles and its value is dropped
FetchReturn ==
  /\ pc = "awaitFetch"
  /\ IF fetchSearchResults(fetchOutcome).threw
     THEN Throw("FetchError")
     ELSE pc' = "synth" /\ UNCHANGED thrown
  /\ UNCHANGED <<topic, i, content, fetchOutcome, retrievalCalls, emitted,
                 queue, delivered, streamState, closeRequested, storedError,
                 cancelled>>

\* line 109: the content of stage i, or a RangeError from its templates
Synthesize ==
  /\ pc = "synth"
  /\ \/ /\ content' = synthesizeContent(topic, searchQueries(topic)[i + 1].query)
        /\ pc' = "delay"
        /\ UNCHANGED thrown
     \/ /\ Throw("RangeError")
        /\ UNCHANGED content
  /\ UNCHANGED <<topic, i, fetchOutcome, retrievalCalls, emitted, queue,
                 delivered, streamState, closeRequested, storedError,
                 cancelled>>

\* the mutant of Delay that goes on to the next stage without sending the
\* result of this one
DelaySkipsResult ==
  /\ pc = "delay"
  /\ i' = i + 1
  /\ pc' = IF i + 1 < NumStages THEN "progress" ELSE "complete"
  /\ UNCHANGED <<topic, content, fetchOutcome, retrievalCalls, thrown,
                 emitted, queue, delivered, streamState, closeRequested,
                 storedError, cancelled>>

\* line 112: the timer of 800 to 1200 ms fires
Delay ==
  /\ pc = "delay"
  /\ pc' = "result"
  /\ UNCHANGED <<topic, i, content, fetchOutcome, retrievalCalls, thrown,
                 emitted, queue, delivered, streamState, closeRequested,
                 storedError, cancelled>>

\* lines 115-124 and the loop's i++ and test: the result frame of stage i;
\* JSON.stringify or encode throws a RangeError, or enqueue a TypeError
SendResult ==
  /\ pc = "result"
  /\ \/ IF CanCloseOrEnqueue
        THEN /\ Enqueue(ResultData(topic, i, content))
             /\ i' = i + 1
             /\ pc' = IF LoopContinues(i + 1) THEN "progress" ELSE "complete"
             /\ UNCHANGED thrown
        ELSE /\ Throw("TypeError")
             /\ UNCHANGED <<emitted, queue, i>>
     \/ /\ Throw("RangeError")
        /\ UNCHANGED <<emitted, queue, i>>
  /\ UNCHANGED <<topic, content, fetchOutcome, retrievalCalls, delivered,
                 streamState, closeRequested, storedError, cancelled>>

\* lines 126-130: the complete frame, then controller.close(), which closes
\* the stream once its queue is drained
SendComplete ==
  /\ pc = "complete"
  /\ IF CanCloseOrEnqueue
     THEN /\ Enqueue(CompleteData)
          /\ closeRequested' = TRUE
          /\ pc' = "done"
          /\ UNCHANGED thrown
     ELSE /\ Throw("TypeError")
          /\ UNCHANGED <<emitted, queue, closeRequested>>
  /\ UNCHANGED <<topic, i, content, fetchOutcome, retrievalCalls, delivered,
                 streamState, storedError, cancelled>>

\* the mutant of Catch that only logs the error
CatchLogsOnly ==
  /\ pc = "catch"
  /\ pc' = "done"
  /\ UNCHANGED <<topic, i, content, fetchOutcome, retrievalCalls, thrown,
                 emitted, queue, delivered, streamState, closeRequested,
                 storedError, cancelled>>

\* lines 131-134: controller.error(error) errors a readable stream with the
\* reason and drops its queue, and does nothing to a stream that is not
\* readable
Catch ==
  /\ pc = "catch"
  /\ IF streamState = "readable"
     THEN /\ streamState' = "errored"
          /\ storedError' = thrown
          /\ queue' = <<>>
     ELSE UNCHANGED <<streamState, storedError, queue>>
  /\ pc' = AfterCatch
  /\ UNCHANGED <<topic, i, content, fetchOutcome, retrievalCalls, thrown,
                 emitted, delivered, closeRequested, cancelled>>

(***************************************************************************)
(* The consumer of the Response body (route.ts lines 138-144).  JavaScript *)
(* runs start() to its next await before anything else, so the consumer    *)
(* acts only while the producer is suspended or has returned.              *)
(***************************************************************************)
Suspended == pc \in {"awaitFetch", "delay", "done"}

\* a read takes the head of the queue; the stream closes when a requested
\* close finds the queue drained
ConsumerRead ==
  /\ Suspended
  /\ streamState = "readable"
  /\ queue # <<>>
  /\ delivered' = Append(delivered, Head(queue))
  /\ queue' = Tail(queue)
  /\ streamState' = IF closeRequested /\ Tail(queue) = <<>>
                    THEN "closed" ELSE streamState
  /\ UNCHANGED <<pc, topic, i, content, fetchOutcome, retrievalCalls, thrown,
                 emitted, closeRequested, storedError, cancelled>>

\* the consumer cancels (the client disconnected or aborted): the stream is
\* closed and its queue dropped
ConsumerCancel ==
  /\ Suspended
  /\ streamState = "readable"
  /\ cancelled' = TRUE
  /\ streamState' = "closed"
  /\ queue' = <<>>
  /\ UNCHANGED <<pc, topic, i, content, fetchOutcome, retrievalCalls, thrown,
                 emitted, delivered, closeRequested, storedError>>

SearchNext ==
  \/ \E body \in RequestBodies : POST(body)
  \/ BuildCatalog
  \/ SendProgress
  \/ CallFetch
  \/ FetchReturn
  \/ Synthesize
  \/ Delay
  \/ SendResult
  \/ SendComplete
  \/ Catch
  \/ ConsumerRead
  \/ ConsumerCancel

(***************************************************************************)
(* The generate-pdf route (src/unnamed/part_001).                          *)
(*                                                                         *)
(* Lengths are millimetres.  jsPDF's A4 page is 210 x 297 mm to within a   *)
(* ten-thousandth; every yPosition of the layout is a whole number, so the *)
(* comparison of line 34 is the same with the whole numbers.               *)
(***************************************************************************)
pageWidth == 210
pageHeight == 297
margin == 20

\* One result of the request body, as the layout sees it: the number of
\* lines doc.splitTextToSize returns for its title and for its content
\* (lines 117 and 131; never fewer than one).
BlockShapes ==
  [titleLines : {1, MaxTitleLines},
   contentLines : {1, MaxContentLines, 3 * MaxContentLines}]

\* the number of entries the table of contents holds on page 2: entry k
\* (from 0) is written at 35 + 7k while that leaves 10 mm above the margin
TocCapacity == ((pageHeight - margin - 10 - (margin + 15)) \div 7) + 1

\* the number of title lines the first page of a section holds: line k
\* (from 0) is written at 30 + 10k while that leaves 12 mm above the margin
TitleCapacity == ((pageHeight - margin - 12 - (margin + 10)) \div 10) + 1

\* The results of a request body: every sequence of at most MaxBlocks
\* shapes, one list long enough for its table of contents to overflow
\* page 2, and one result whose title overflows its first page.
ResultLists ==
  UNION {[1..n -> BlockShapes] : n \in 0..MaxBlocks}
    \cup {[k \in 1..(TocCapacity + 1) |-> [titleLines |-> 1, contentLines |-> 1]]}
    \cup {<<[titleLines |-> TitleCapacity + 1, contentLines |-> 1]>>}

PdfTopics == {JUndefined, JString(<<"a", "i">>)}

\* Topics for the file name: upper case, a run of two blanks and a digit;
\* punctuation only; the empty string.
FileNameTopics ==
  { JString(<<"A", " ", " ", "b", "9">>),
    JString(<<"!", "!", "!">>),
    JString(<<>>) }

\* request.json() rejects, or yields { topic, results }
PdfBodies ==
  {[json |-> FALSE, topic |-> JUndefined, results |-> <<>>]}
    \cup {[json |-> TRUE, topic |-> t, results |-> r] :
            t \in PdfTopics, r \in ResultLists}
    \cup {[json |-> TRUE, topic |-> t, results |-> r] :
            t \in FileNameTopics,
            r \in {<<>>, <<[titleLines |-> 1, contentLines |-> 1]>>}}

(***************************************************************************)
(* The file name of the Content-Disposition header (part_001 line 179; the *)
(* page builds the same name for its download link, route.ts line 244).    *)
(***************************************************************************)
LowerLetters ==
  <<"a", "b", "c", "d", "e", "f", "g", "h", "i", "j", "k", "l", "m",
    "n", "o", "p", "q", "r", "s", "t", "u", "v", "w", "x", "y", "z">>
UpperLetters ==
  <<"A", "B", "C", "D", "E", "F", "G", "H", "I", "J", "K", "L", "M",
    "N", "O", "P", "Q", "R", "S", "T", "U", "V", "W", "X", "Y", "Z">>
Digits == {"0", "1", "2", "3", "4", "5", "6", "7", "8", "9"}
Range(s) == {s[k] : k \in 1..Len(s)}

\* the mutant of IsAlnum whose regular expression lacks the i flag
IsAlnumCaseSensitive(c) == c \in Range(LowerLetters) \cup Digits

\* whether c is outside what /[^a-z0-9]/gi matches: the flag i makes the
\* class hold the upper-case letters too
IsAlnum(c) == c \in Range(LowerLetters) \cup Range(UpperLetters) \cup Digits

\* .replace(/[^a-z0-9]/gi, '_'): the flag g replaces every match, and a
\* match is one character (the class has no quantifier)
ReplaceNonAlnum(s) ==
  [k \in 1..Len(s) |-> IF IsAlnum(s[k]) THEN s[k] ELSE "_"]

\* the mutant of toLowerCase that leaves the string as it is
toLowerCaseOmitted(s) == s

\* .toLowerCase()
toLowerCase(s) ==
  [k \in 1..Len(s) |->
     IF s[k] \in Range(UpperLetters)
     THEN LowerLetters[CHOOSE j \in 1..Len(UpperLetters) :
                         UpperLetters[j] = s[k]]
     ELSE s[k]]

\* the literal tail of the template of line 179
ReportSuffix == <<"_", "r", "e", "p", "o", "r", "t", ".", "p", "d", "f">>

\* `${topic.replace(/[^a-z0-9]/gi, '_').toLowerCase()}_report.pdf`
FileName(t) == toLowerCase(ReplaceNonAlnum(t)) \o ReportSuffix

\* What POST returns: the status, the error member of a JSON body, the
\* serialized document (its pages) and the file name of the header.
NoResponse ==
  [status |-> 0, error |-> "", document |-> <<>>, filename |-> <<>>]

\* the mutant of FailureResponse that forgets { status: 500 }
FailureResponseNoStatus ==
  [status |-> 200, error |-> "Failed to generate PDF", document |-> <<>>,
   filename |-> <<>>]

\* lines 182-188: NextResponse.json({ error: ... }, { status: 500 })
FailureResponse ==
  [status |-> 500, error |-> "Failed to generate PDF", document |-> <<>>,
   filename |-> <<>>]

\* lines 173-181: new NextResponse(pdfBuffer, { headers }); the status of
\* a NextResponse without one is 200
DocumentResponse(pgs, t) ==
  [status |-> 200, error |-> "", document |-> pgs, filename |-> FileName(t)]

VARIABLES
  lpc,         \* where POST of the generate-pdf route stands
  pdfTopic,    \* topic of line 17
  results,     \* results of line 17
  pages,       \* doc: the pages, each the sequence of what was drawn on it
  curPage,     \* the page doc draws on (the last added, or that of setPage)
  yPosition,   \* the cursor of line 30
  index,       \* the index of the forEach callbacks (lines 92, 102)
  line,        \* how many lines of the current title or content are drawn
  totalPages,  \* line 155
  footerI,     \* the loop variable of line 156
  response     \* what POST returned (NoResponse before it returns)

pdfVars ==
  <<lpc, pdfTopic, results, pages, curPage, yPosition, index, line,
    totalPages, footerI, response>>

VARIABLES
  spc,         \* a call of synthesizeContent on its own: "called", "returned"
  synTopic,    \* its argument topic
  synQuery,    \* its argument query
  synOut       \* what it returned

synthVars == <<spc, synTopic, synQuery, synOut>>

VARIABLES
  cpc,            \* where handleDeepSearch of the page stands
  uiTopic,        \* the state `topic` of the page (line 158)
  isSearching,    \* line 159
  searchResults,  \* line 160
  progress,       \* line 161
  sentTopic,      \* the topic of the request body of line 177
  served,         \* the frames whose bytes the response body delivers
  wire,           \* the bytes of the body the reader has not returned yet
  wireEnd,        \* how the body ends after them: "closed" or "errored"
  lastOutcome     \* how the last call of handleDeepSearch ended

clientVars ==
  <<cpc, uiTopic, isSearching, searchResults, progress, sentTopic, served,
    wire, wireEnd, lastOutcome>>

VARIABLES
  gpc,              \* where handleGeneratePDF of the page stands
  isGeneratingPdf,  \* line 162
  pdfRequest        \* the body of the request of line 227 while in flight

genVars == <<gpc, isGeneratingPdf, pdfRequest>>

vars == <<searchVars, pdfVars, synthVars, clientVars, genVars>>

\* the variables a step of one part leaves alone
notSearchVars == <<pdfVars, synthVars, clientVars, genVars>>
notPdfVars == <<searchVars, synthVars, clientVars, genVars>>
notSynthVars == <<searchVars, pdfVars, clientVars, genVars>>
notClientVars == <<searchVars, pdfVars, synthVars, genVars>>
notPageVars == <<searchVars, pdfVars, synthVars>>

PdfInit ==
  /\ lpc = "idle"
  /\ pdfTopic = JUndefined
  /\ results = <<>>
  /\ pages = << <<>> >>
  /\ curPage = 1
  /\ yPosition = margin
  /\ index = 0
  /\ line = 0
  /\ totalPages = 0
  /\ footerI = 0
  /\ response = NoResponse

\* One drawing call: what it draws, the y it is given, and two numbers:
\*   tocEntry: n is index + 1, m the pageNumber of the link;
\*   label:    n is index + 1 of `SECTION ${index + 1}`;
\*   footer:   n is i and m totalPages of `Page ${i} of ${totalPages}`;
\*   title, content: n is the line's number.
Draw(kind, y, n, m, t) == [kind |-> kind, y |-> y, n |-> n, m |-> m, topic |-> t]

\* doc.text / doc.textWithLink / doc.line / doc.rect on the current page
DrawOn(pgs, p, op) == [pgs EXCEPT ![p] = Append(@, op)]

\* the mutant of checkAndAddPage that never breaks the page
checkAndAddPageNever(requiredSpace, y) == [added |-> FALSE, y |-> y]

\* the mutant of checkAndAddPage that adds the page and forgets
\* yPosition = margin
checkAndAddPageNoReset(requiredSpace, y) ==
  IF y + requiredSpace > pageHeight - margin
  THEN [added |-> TRUE, y |-> y]
  ELSE [added |-> FALSE, y |-> y]

\* checkAndAddPage (lines 33-40) on a document with the cursor at y:
\* whether a page is added, and the cursor after it
checkAndAddPage(requiredSpace, y) ==
  IF y + requiredSpace > pageHeight - margin
  THEN [added |-> TRUE, y |-> margin]
  ELSE [added |-> FALSE, y |-> y]

\* doc.addPage(): the new page is the last one and becomes the current one
AddPage(pgs) == Append(pgs, <<>>)

\* the pageNumber of the link of a table-of-contents entry (line 96)
TocPageNumber(idx) == idx + 3

\* lines 16-17: the body is parsed; a body that is not JSON is caught at
\* line 182 and answered with status 500
PdfPOST(body) ==
  /\ lpc = "idle"
  /\ IF body.json
     THEN /\ pdfTopic' = body.topic
          /\ results' = body.results
          /\ lpc' = "cover"
          /\ UNCHANGED response
     ELSE /\ lpc' = "failed"
          /\ response' = FailureResponse
          /\ UNCHANGED <<pdfTopic, results>>
  /\ UNCHANGED <<pages, curPage, yPosition, index, line, totalPages, footerI>>

\* lines 48-80: the cover on page 1 (fill, the wrapped upper-case topic
\* centred, subtitle, date), then page 2.  topic.toUpperCase() throws when
\* topic is not a string, after the fill is drawn, which line 182 catches.  The title's y is in
\* whole millimetres, rounded down.
CoverPage ==
  /\ lpc = "cover"
  /\ IF pdfTopic.kind = "string"
     THEN /\ pages' =
               AddPage(
                 DrawOn(DrawOn(DrawOn(DrawOn(pages, 1,
                   Draw("coverFill", 0, 0, 0, <<>>)), 1,
                   Draw("coverTitle", (pageHeight - 12) \div 2, 1, 0,
                        ToStr(pdfTopic))), 1,
                   Draw("coverSubtitle", pageHeight - 40, 0, 0, <<>>)), 1,
                   Draw("coverDate", pageHeight - 30, 0, 0, <<>>)))
          /\ curPage' = 2
          /\ yPosition' = margin
          /\ lpc' = "tocHeader"
          /\ UNCHANGED response
     ELSE /\ pages' = DrawOn(pages, 1, Draw("coverFill", 0, 0, 0, <<>>))
          /\ lpc' = "failed"
          /\ response' = FailureResponse
          /\ UNCHANGED <<curPage, yPosition>>
  /\ UNCHANGED <<pdfTopic, results, index, line, totalPages, footerI>>

\* lines 82-90: the header of the table of contents
TocHeader ==
  /\ lpc = "tocHeader"
  /\ pages' = DrawOn(pages, curPage, Draw("tocHeader", yPosition, 0, 0, <<>>))
  /\ yPosition' = yPosition + 15
  /\ index' = 0
  /\ lpc' = "toc"
  /\ UNCHANGED <<pdfTopic, results, curPage, line, totalPages, footerI,
                 response>>

\* lines 92-99, one call of the callback: the entry of results[index]
TocEntry ==
  /\ lpc = "toc"
  /\ index < Len(results)
  /\ LET c == checkAndAddPage(10, yPosition)
         pgs == IF c.added THEN AddPage(pages) ELSE pages
         cur == IF c.added THEN Len(pgs) ELSE curPage
     IN  /\ pages' = DrawOn(pgs, cur,
                       Draw("tocEntry", c.y, index + 1, TocPageNumber(index),
                            <<>>))
         /\ curPage' = cur
         /\ yPosition' = c.y + 7
  /\ index' = index + 1
  /\ UNCHANGED <<lpc, pdfTopic, results, line, totalPages, footerI, response>>

\* the first forEach is over; the second begins (line 102)
TocDone ==
  /\ lpc = "toc"
  /\ index = Len(results)
  /\ index' = 0
  /\ lpc' = "section"
  /\ UNCHANGED <<pdfTopic, results, pages, curPage, yPosition, line,
                 totalPages, footerI, response>>

\* the mutant of StartSection that forgets doc.addPage()
StartSectionNoBreak(pgs) == pgs

\* lines 103-104: every section begins with doc.addPage()
StartSection(pgs) == AddPage(pgs)

\* lines 103-117: a new page and the SECTION label of results[index]
SectionStart ==
  /\ lpc = "section"
  /\ index < Len(results)
  /\ LET pgs == StartSection(pages)
     IN  /\ pages' = DrawOn(pgs, Len(pgs),
                       Draw("label", margin, index + 1, 0, <<>>))
         /\ curPage' = Len(pgs)
  /\ yPosition' = margin + 10
  /\ line' = 0
  /\ lpc' = "title"
  /\ UNCHANGED <<pdfTopic, results, index, totalPages, footerI, response>>

\* lines 118-122, one call of the callback: a line of the title
TitleLine ==
  /\ lpc = "title"
  /\ line < results[index + 1].titleLines
  /\ LET c == checkAndAddPage(12, yPosition)
         pgs == IF c.added THEN AddPage(pages) ELSE pages
         cur == IF c.added THEN Len(pgs) ELSE curPage
     IN  /\ pages' = DrawOn(pgs, cur, Draw("title", c.y, line + 1, 0, <<>>))
         /\ curPage' = cur
         /\ yPosition' = c.y + 10
  /\ line' = line + 1
  /\ UNCHANGED <<lpc, pdfTopic, results, index, totalPages, footerI, response>>

\* lines 124-131: the gap under the title
TitleDone ==
  /\ lpc = "title"
  /\ line = results[index + 1].titleLines
  /\ yPosition' = yPosition + 5
  /\ line' = 0
  /\ lpc' = "content"
  /\ UNCHANGED <<pdfTopic, results, pages, curPage, index, totalPages,
                 footerI, response>>

\* lines 132-136, one call of the callback: a line of the content
ContentLine ==
  /\ lpc = "content"
  /\ line < results[index + 1].contentLines
  /\ LET c == checkAndAddPage(8, yPosition)
         pgs == IF c.added THEN AddPage(pages) ELSE pages
         cur == IF c.added THEN Len(pgs) ELSE curPage
     IN  /\ pages' = DrawOn(pgs, cur, Draw("content", c.y, line + 1, 0, <<>>))
         /\ curPage' = cur
         /\ yPosition' = c.y + 6
  /\ line' = line + 1
  /\ UNCHANGED <<lpc, pdfTopic, results, index, totalPages, footerI, response>>

\* line 138: the gap under the content; the cursor may now stand below
\* the bottom margin until line 141 looks at it
ContentDone ==
  /\ lpc = "content"
  /\ line = results[index + 1].contentLines
  /\ yPosition' = yPosition + 10
  /\ lpc' = "source"
  /\ UNCHANGED <<pdfTopic, results, pages, curPage, index, line, totalPages,
                 footerI, response>>

\* lines 140-152: the source line and the rule under it end the section
SourceAndRule ==
  /\ lpc = "source"
  /\ LET c == checkAndAddPage(10, yPosition)
         pgs == IF c.added THEN AddPage(pages) ELSE pages
         cur == IF c.added THEN Len(pgs) ELSE curPage
     IN  /\ pages' = DrawOn(DrawOn(pgs, cur,
                       Draw("source", c.y, index + 1, 0, <<>>)), cur,
                       Draw("rule", c.y + 5, index + 1, 0, <<>>))
         /\ curPage' = cur
         /\ yPosition' = c.y + 5
  /\ index' = index + 1
  /\ line' = 0
  /\ lpc' = "section"
  /\ UNCHANGED <<pdfTopic, results, totalPages, footerI, response>>

\* line 155: the second forEach is over; the pages are counted
SectionsDone ==
  /\ lpc = "section"
  /\ index = Len(results)
  /\ totalPages' = Len(pages)
  /\ footerI' = 1
  /\ lpc' = "footer"
  /\ UNCHANGED <<pdfTopic, results, pages, curPage, yPosition, index, line,
                 response>>

\* the mutant of FooterPage without doc.setPage(i): the footer goes to the
\* page the layout ended on
FooterPageLast(k) == curPage

\* the page the footer of the loop's i is drawn on: doc.setPage(i), line 157
FooterPage(k) == k

\* the total the footers print (line 164)
FooterTotal == totalPages

\* the mutant of HasFooter that stamps the cover too
HasFooterOnCover(k) == k >= 1

\* whether page i gets a footer (line 162)
HasFooter(k) == k > 1

\* lines 156-170, one turn of the loop
Footer ==
  /\ lpc = "footer"
  /\ footerI <= totalPages
  /\ curPage' = FooterPage(footerI)
  /\ pages' = IF HasFooter(footerI)
              THEN DrawOn(pages, FooterPage(footerI),
                     Draw("footer", pageHeight - 10, footerI, FooterTotal,
                          ToStr(pdfTopic)))
              ELSE pages
  /\ footerI' = footerI + 1
  /\ UNCHANGED <<lpc, pdfTopic, results, yPosition, index, line, totalPages,
                 response>>

\* lines 172-181: the document is serialized and returned; doc.output or
\* Buffer.from may throw (a document too large for one buffer), which line
\* 182 catches
Respond ==
  /\ lpc = "footer"
  /\ footerI > totalPages
  /\ \/ /\ response' = DocumentResponse(pages, ToStr(pdfTopic))
        /\ lpc' = "done"
     \/ /\ response' = FailureResponse
        /\ lpc' = "failed"
  /\ UNCHANGED <<pdfTopic, results, pages, curPage, yPosition, index, line,
                 totalPages, footerI>>

(***************************************************************************)
(* Specifications: one request to each route.                              *)
(***************************************************************************)
(***************************************************************************)
(* synthesizeContent called on its own, on any topic and any query.        *)
(***************************************************************************)
\* The words of the queries: the first words of `queries`, words that hold
\* one of them, words that come near one, and words that have none.
QueryWords ==
  { <<"o", "v", "e", "r", "v", "i", "e", "w">>,
    <<"h", "i", "s", "t", "o", "r", "i", "c", "a", "l">>,
    <<"c", "a", "s", "e", "w", "o", "r", "k">>,
    <<"b", "e", "s", "t">>,
    <<"O", "v", "e", "r", "v", "i", "e", "w">>,
    <<"h", "i", "s", "t", "o", "r", "y">>,
    <<"t", "r", "e", "n", "d", "s">>,
    <<"p", "r", "o", "s", "p", "e", "c", "t", "s">>,
    <<"q", "u", "a", "n", "t", "u", "m">>,
    <<>> }

\* the queries of n words, separated by one blank
RECURSIVE QueriesOf(_)
QueriesOf(n) ==
  IF n = 0 THEN {<<>>}
  ELSE IF n = 1 THEN QueryWords
  ELSE {q \o <<" ">> \o w : q \in QueriesOf(n - 1), w \in QueryWords}

SynthQueryInputs == UNION {QueriesOf(n) : n \in 0..MaxQueryWords}

SynthTopicInputs ==
  {JString(<<"a", "i">>), JString(<<"c", "a", "s", "e">>), JString(<<>>)}

\* no template
NoOutput == [key |-> "", args |-> <<>>]

\* no call of synthesizeContent on its own
SynthIdle ==
  /\ spc = "idle"
  /\ synTopic = JUndefined
  /\ synQuery = <<>>
  /\ synOut = NoOutput

\* synthesizeContent(topic, query) is called
SynthInit ==
  /\ spc = "called"
  /\ synTopic \in SynthTopicInputs
  /\ synQuery \in SynthQueryInputs
  /\ synOut = NoOutput

\* lines 39-74: the call returns
SynthReturn ==
  /\ spc = "called"
  /\ synOut' = synthesizeContent(synTopic, synQuery)
  /\ spc' = "returned"
  /\ UNCHANGED <<synTopic, synQuery>>

(***************************************************************************)
(* The page (route.ts lines 147-361): handleDeepSearch and the state it    *)
(* sets.  The body of the response is the text                             *)
(*     data: <JSON>\n\n                                                    *)
(* of each frame (lines 103, 123, 128).  The text is cut in pieces: the    *)
(* prefix "data: ", the JSON text in two halves, and the two newlines; a   *)
(* read returns some pieces, so that a chunk may end inside a frame.       *)
(***************************************************************************)
Max(S) == CHOOSE x \in S : \A y \in S : x >= y

WhiteSpace == {" ", "\t", "\n"}

\* String.prototype.trim
Trim(s) ==
  LET ns == {k \in 1..Len(s) : s[k] \notin WhiteSpace}
  IN  IF ns = {} THEN <<>> ELSE SubSeq(s, Min(ns), Max(ns))

\* what the user may type in the input
ClientTopics == {<<>>, <<" ">>, <<"a", "i">>, <<" ", "c", "a", "s", "e">>}

NoFrame == [type |-> "", message |-> NoMessage, result |-> NoResult]

\* `data: ${JSON.stringify(frame)}\n\n`
Encode(frame) ==
  << [tok |-> "data: ", frame |-> NoFrame],
     [tok |-> "jsonHead", frame |-> frame],
     [tok |-> "jsonTail", frame |-> frame],
     [tok |-> "\n", frame |-> NoFrame],
     [tok |-> "\n", frame |-> NoFrame] >>

RECURSIVE EncodeAll(_)
EncodeAll(frames) ==
  IF frames = <<>> THEN <<>>
  ELSE Encode(Head(frames)) \o EncodeAll(Tail(frames))

\* the frames POST enqueues for topic t when no stage throws (lines 95-128)
AllFrames(t) ==
  [k \in 1..(2 * NumStages + 1) |->
     IF k = 2 * NumStages + 1 THEN CompleteData
     ELSE IF k % 2 = 1 THEN ProgressData(t, (k - 1) \div 2)
     ELSE ResultData(t, (k - 2) \div 2,
            synthesizeContent(t, searchQueries(t)[k \div 2].query))]

\* chunk.split('\n')
RECURSIVE Split(_)
Split(chunk) ==
  LET nls == {k \in 1..Len(chunk) : chunk[k].tok = "\n"}
  IN  IF nls = {} THEN <<chunk>>
      ELSE <<SubSeq(chunk, 1, Min(nls) - 1)>>
             \o Split(SubSeq(chunk, Min(nls) + 1, Len(chunk)))

\* line.startsWith('data: ')
StartsWithData(ln) == Len(ln) >= 1 /\ ln[1].tok = "data: "

\* JSON.parse(line.slice(6)): the frame when the rest of the line is the
\* whole JSON text, NoFrame when it throws (lines 196, 206-208)
Parse(ln) ==
  IF /\ Len(ln) = 3
     /\ ln[2].tok = "jsonHead"
     /\ ln[3].tok = "jsonTail"
     /\ ln[2].frame = ln[3].frame
  THEN ln[2].frame
  ELSE NoFrame

\* the state the page shows
InitializingText == [text |-> "Initializing deep search...", message |-> NoMessage]
CompleteText == [text |-> "Deep search complete!", message |-> NoMessage]
FailedText == [text |-> "Search failed. Please try again.", message |-> NoMessage]

\* lines 198-205 for one parsed frame, on the state st
OnFrame(st, f) ==
  IF f.type = "progress"
  THEN [st EXCEPT !.progress = [text |-> "", message |-> f.message]]
  ELSE IF f.type = "result"
  THEN [st EXCEPT !.searchResults = Append(@, f.result)]
  ELSE IF f.type = "complete"
  THEN [st EXCEPT !.progress = CompleteText, !.isSearching = FALSE]
  ELSE st

\* lines 193-210: the lines of a chunk, in order
RECURSIVE OnLines(_, _)
OnLines(st, lns) ==
  IF lns = <<>> THEN st
  ELSE OnLines(IF StartsWithData(Head(lns))
               THEN OnFrame(st, Parse(Head(lns)))
               ELSE st,
               Tail(lns))

\* the page after it is mounted (lines 158-161)
ClientInit ==
  /\ cpc = "idle"
  /\ uiTopic = <<>>
  /\ isSearching = FALSE
  /\ searchResults = <<>>
  /\ progress = [text |-> "", message |-> NoMessage]
  /\ sentTopic = <<>>
  /\ served = <<>>
  /\ wire = <<>>
  /\ wireEnd = "closed"
  /\ lastOutcome = "none"

\* onChange of the input (line 279), which is disabled while isSearching
SetTopic(t) ==
  /\ ~isSearching
  /\ t # uiTopic
  /\ uiTopic' = t
  /\ UNCHANGED <<cpc, isSearching, searchResults, progress, sentTopic,
                 served, wire, wireEnd, lastOutcome>>

\* lines 164-178: the button or the Enter key (both off while isSearching)
\* call handleDeepSearch, which returns at once for a blank topic and
\* otherwise sets the state and sends the request
HandleDeepSearch ==
  /\ cpc = "idle"
  /\ ~isSearching
  /\ Trim(uiTopic) # <<>>
  /\ isSearching' = TRUE
  /\ searchResults' = <<>>
  /\ progress' = InitializingText
  /\ sentTopic' = uiTopic
  /\ lastOutcome' = "none"
  /\ served' = <<>>
  /\ wire' = <<>>
  /\ wireEnd' = "closed"
  /\ cpc' = "fetching"
  /\ UNCHANGED uiTopic

\* lines 213-217: the catch of handleDeepSearch
SearchCatch(outcome) ==
  /\ progress' = FailedText
  /\ isSearching' = FALSE
  /\ lastOutcome' = outcome
  /\ cpc' = "idle"

\* lines 172-180: fetch rejects, or the response is not ok and line 180
\* throws
FetchFails(outcome) ==
  /\ cpc = "fetching"
  /\ SearchCatch(outcome)
  /\ UNCHANGED <<uiTopic, searchResults, sentTopic, served, wire, wireEnd>>

\* lines 182-185: the response is ok and has no body; reader is undefined,
\* the if of line 185 is skipped and the handler returns
FetchNoBody ==
  /\ cpc = "fetching"
  /\ lastOutcome' = "noBody"
  /\ cpc' = "idle"
  /\ UNCHANGED <<uiTopic, isSearching, searchResults, progress, sentTopic,
                 served, wire, wireEnd>>

\* lines 182-185: the response is ok and its body delivers the first n
\* frames of the run; the body is closed after the complete frame, and
\* errored when the run threw before it (line 133)
FetchStream(n) ==
  /\ cpc = "fetching"
  /\ LET all == AllFrames(JString(sentTopic))
     IN  /\ n \in 0..Len(all)
         /\ served' = SubSeq(all, 1, n)
         /\ wire' = EncodeAll(SubSeq(all, 1, n))
         /\ wireEnd' = IF n = Len(all) THEN "closed" ELSE "errored"
  /\ cpc' = "reading"
  /\ UNCHANGED <<uiTopic, isSearching, searchResults, progress, sentTopic,
                 lastOutcome>>

\* lines 187-210: reader.read() returns the next c pieces as one chunk
ReadChunk(c) ==
  /\ cpc = "reading"
  /\ c \in 1..Len(wire)
  /\ LET st == OnLines([progress |-> progress,
                        searchResults |-> searchResults,
                        isSearching |-> isSearching],
                       Split(SubSeq(wire, 1, c)))
     IN  /\ progress' = st.progress
         /\ searchResults' = st.searchResults
         /\ isSearching' = st.isSearching
  /\ wire' = SubSeq(wire, c + 1, Len(wire))
  /\ UNCHANGED <<cpc, uiTopic, sentTopic, served, wireEnd,
                 lastOutcome>>

\* line 188: done is true, the loop is left and the handler returns
ReadDone ==
  /\ cpc = "reading"
  /\ wire = <<>>
  /\ wireEnd = "closed"
  /\ lastOutcome' = "closed"
  /\ cpc' = "idle"
  /\ UNCHANGED <<uiTopic, isSearching, searchResults, progress, sentTopic,
                 served, wire, wireEnd>>

\* line 187: reader.read() rejects with the error of the stream
ReadError ==
  /\ cpc = "reading"
  /\ wire = <<>>
  /\ wireEnd = "errored"
  /\ SearchCatch("errored")
  /\ UNCHANGED <<uiTopic, searchResults, sentTopic, served, wire, wireEnd>>

(***************************************************************************)
(* The page, continued: handleGeneratePDF (route.ts lines 220-257).  The   *)
(* handler reads `topic` and `searchResults` of the render in which the    *)
(* button was clicked.  The file the browser saves is not part of the      *)
(* state.                                                                  *)
(***************************************************************************)
NoRequest == [topic |-> <<>>, results |-> <<>>]

GeneratingText == [text |-> "Generating PDF...", message |-> NoMessage]
DownloadedText == [text |-> "PDF downloaded successfully!", message |-> NoMessage]
PdfFailedText ==
  [text |-> "PDF generation failed. Please try again.", message |-> NoMessage]

\* the page after it is mounted (line 162)
GenInit ==
  /\ gpc = "idle"
  /\ isGeneratingPdf = FALSE
  /\ pdfRequest = NoRequest

\* the topic member of the body of line 232: the state `topic`
RequestTopic == uiTopic

\* lines 220-236: the Generate PDF button, which is rendered when
\* searchResults is not empty and is disabled while isGeneratingPdf, calls
\* handleGeneratePDF, which sends { topic, results: searchResults }
HandleGeneratePDF ==
  /\ gpc = "idle"
  /\ ~isGeneratingPdf
  /\ searchResults # <<>>
  /\ isGeneratingPdf' = TRUE
  /\ progress' = GeneratingText
  /\ pdfRequest' = [topic |-> RequestTopic, results |-> searchResults]
  /\ gpc' = "fetching"
  /\ UNCHANGED <<cpc, uiTopic, isSearching, searchResults, sentTopic, served,
                 wire, wireEnd, lastOutcome>>

\* lines 238-250 and 254-256: the response is ok, the blob is saved
GeneratePdfOk ==
  /\ gpc = "fetching"
  /\ progress' = DownloadedText
  /\ isGeneratingPdf' = FALSE
  /\ pdfRequest' = NoRequest
  /\ gpc' = "idle"
  /\ UNCHANGED <<cpc, uiTopic, isSearching, searchResults, sentTopic, served,
                 wire, wireEnd, lastOutcome>>

\* lines 251-256: fetch rejects or the response is not ok; the catch and
\* the finally
GeneratePdfFails ==
  /\ gpc = "fetching"
  /\ progress' = PdfFailedText
  /\ isGeneratingPdf' = FALSE
  /\ pdfRequest' = NoRequest
  /\ gpc' = "idle"
  /\ UNCHANGED <<cpc, uiTopic, isSearching, searchResults, sentTopic, served,
                 wire, wireEnd, lastOutcome>>

Init == SearchInit /\ PdfInit /\ SynthIdle /\ ClientInit /\ GenInit

Next ==
  \/ \E body \in RequestBodies : POST(body) /\ UNCHANGED notSearchVars
  \/ BuildCatalog /\ UNCHANGED notSearchVars
  \/ SendProgress /\ UNCHANGED notSearchVars
  \/ CallFetch /\ UNCHANGED notSearchVars
  \/ FetchReturn /\ UNCHANGED notSearchVars
  \/ Synthesize /\ UNCHANGED notSearchVars
  \/ Delay /\ UNCHANGED notSearchVars
  \/ SendResult /\ UNCHANGED notSearchVars
  \/ SendComplete /\ UNCHANGED notSearchVars
  \/ Catch /\ UNCHANGED notSearchVars
  \/ ConsumerRead /\ UNCHANGED notSearchVars
  \/ ConsumerCancel /\ UNCHANGED notSearchVars

\* the deep-search route
Spec == Init /\ [][Next]_vars

PdfNext ==
  \/ \E body \in PdfBodies : PdfPOST(body) /\ UNCHANGED notPdfVars
  \/ CoverPage /\ UNCHANGED notPdfVars
  \/ TocHeader /\ UNCHANGED notPdfVars
  \/ TocEntry /\ UNCHANGED notPdfVars
  \/ TocDone /\ UNCHANGED notPdfVars
  \/ SectionStart /\ UNCHANGED notPdfVars
  \/ TitleLine /\ UNCHANGED notPdfVars
  \/ TitleDone /\ UNCHANGED notPdfVars
  \/ ContentLine /\ UNCHANGED notPdfVars
  \/ ContentDone /\ UNCHANGED notPdfVars
  \/ SourceAndRule /\ UNCHANGED notPdfVars
  \/ SectionsDone /\ UNCHANGED notPdfVars
  \/ Footer /\ UNCHANGED notPdfVars
  \/ Respond /\ UNCHANGED notPdfVars

\* the generate-pdf route
PdfSpec == Init /\ [][PdfNext]_vars

SynthNext == SynthReturn /\ UNCHANGED notSynthVars

\* synthesizeContent alone
\* the routes and the page idle, and a call of synthesizeContent
SynthStart == SearchInit /\ PdfInit /\ SynthInit /\ ClientInit /\ GenInit

SynthSpec == SynthStart /\ [][SynthNext]_vars

ClientNext ==
  \/ \E t \in ClientTopics : SetTopic(t) /\ UNCHANGED notClientVars
  \/ HandleDeepSearch /\ UNCHANGED notClientVars
  \/ \E o \in {"rejected", "notOk"} : FetchFails(o) /\ UNCHANGED notClientVars
  \/ FetchNoBody /\ UNCHANGED notClientVars
  \/ \E n \in 0..(2 * NumStages + 1) : FetchStream(n) /\ UNCHANGED notClientVars
  \/ \E c \in 1..MaxChunkPieces : ReadChunk(c) /\ UNCHANGED notClientVars
  \/ ReadDone /\ UNCHANGED notClientVars
  \/ ReadError /\ UNCHANGED notClientVars

\* the page
ClientSpec == Init /\ [][ClientNext]_vars

\* the number of pieces of one frame
FramePieces == Len(Encode(NoFrame))

\* Both handlers of the page, with every read returning one frame, as the
\* route enqueues them.
PageNext ==
  \/ \E t \in ClientTopics : SetTopic(t) /\ UNCHANGED notClientVars
  \/ HandleDeepSearch /\ UNCHANGED notClientVars
  \/ \E o \in {"rejected", "notOk"} : FetchFails(o) /\ UNCHANGED notClientVars
  \/ FetchNoBody /\ UNCHANGED notClientVars
  \/ \E n \in 0..(2 * NumStages + 1) : FetchStream(n) /\ UNCHANGED notClientVars
  \/ ReadChunk(FramePieces) /\ UNCHANGED notClientVars
  \/ ReadDone /\ UNCHANGED notClientVars
  \/ ReadError /\ UNCHANGED notClientVars
  \/ HandleGeneratePDF /\ UNCHANGED notPageVars
  \/ GeneratePdfOk /\ UNCHANGED notPageVars
  \/ GeneratePdfFails /\ UNCHANGED notPageVars

\* the page with both handlers
PageSpec == Init /\ [][PageNext]_vars


(***************************************************************************)
(* Properties of the deep-search route.                                    *)
(***************************************************************************)
ResultFrames == SelectSeq(emitted, LAMBDA f : f.type = "result")
CompleteFrames == SelectSeq(emitted, LAMBDA f : f.type = "complete")

\* the request was accepted and its topic is a string of at least one character
NonEmptyTopic == topic.kind = "string" /\ topic.chars # <<>>

\* the run is over and nothing was thrown in it
RanWithoutException == pc = "done" /\ thrown = "none"

\* C1: for a non-empty topic, a run that meets no exception has emitted
\* exactly NumStages results, the k-th titled with the perspective of stage
\* k, in catalog order, then exactly one complete frame; and at no time does
\* any frame follow a complete frame.
C1_ResultsThenComplete ==
  /\ \A k \in 1..Len(emitted) :
       emitted[k].type = "complete" => k = Len(emitted)
  /\ (NonEmptyTopic /\ RanWithoutException) =>
       /\ Len(ResultFrames) = NumStages
       /\ \A k \in 1..NumStages :
            ResultFrames[k].result.title = Perspectives[k]
       /\ Len(CompleteFrames) = 1
       /\ emitted[Len(emitted)].type = "complete"

C1_Witness ==
  /\ RanWithoutException
  /\ topic = JString(<<"a", "i">>)
  /\ Len(ResultFrames) = NumStages

\* C2: the frames before the terminal one alternate, progress of stage 0,
\* result of stage 0, progress of stage 1, ...: the (2k+1)-th frame is the
\* progress of stage k and the (2k+2)-th the result of stage k.
C2_ProgressResultAlternate ==
  \A k \in 1..Len(emitted) :
    emitted[k].type # "complete" =>
      IF k % 2 = 1
      THEN /\ emitted[k].type = "progress"
           /\ emitted[k].message.n = (k + 1) \div 2
           /\ emitted[k].message.perspective = Perspectives[(k + 1) \div 2]
      ELSE /\ emitted[k].type = "result"
           /\ emitted[k].result.title = Perspectives[k \div 2]

C2_Witness ==
  /\ Len(emitted) = 2 * NumStages
  /\ emitted[2 * NumStages].type = "result"
  /\ emitted[2 * NumStages - 1].type = "progress"

\* the stream was errored with a reason: the failure the consumer's read
\* rejects with
FailureEmitted == streamState = "errored" /\ storedError # "none"

\* the terminal events of the finished stream
ExactlyOneTerminal ==
  /\ Len(CompleteFrames) + (IF FailureEmitted THEN 1 ELSE 0) = 1
  /\ Len(CompleteFrames) = 1 => emitted[Len(emitted)].type = "complete"
  /\ thrown # "none" => (FailureEmitted /\ Len(CompleteFrames) = 0)

\* C4 as stated: every stream ends with exactly one terminal event, complete
\* or failure, and after an exception it is a failure with its reason and
\* there is no complete.
C4_Original == pc = "done" => ExactlyOneTerminal

\* C4 as amended: the same of every stream the consumer has not cancelled.
C4_OneTerminalUnlessCancelled ==
  (pc = "done" /\ ~cancelled) => ExactlyOneTerminal

C4_Witness ==
  /\ pc = "done"
  /\ ~cancelled
  /\ thrown = "RangeError"
  /\ FailureEmitted
  /\ Len(emitted) > 2

\* C5 as stated: the content of the result of stage k is the template of
\* stage k's own category with the topic substituted, whatever the topic.
C5_OwnCategoryTemplate ==
  \A k \in 1..Len(ResultFrames) :
    ResultFrames[k].result.content = Template(PerspectiveKeys[k], topic)

\* C8 as stated: a request whose topic is empty or missing is rejected
\* before any stage: it gets no frame and no retrieval call.
C8_EmptyTopicRejected ==
  (pc # "idle" /\ (topic = JUndefined \/ topic = JString(<<>>))) =>
    (emitted = <<>> /\ retrievalCalls = <<>>)

\* C9: no failure comes of the retrieval call: whatever its outcome the
\* stage goes on to synthesize, nothing thrown; and every result emitted
\* carries the content synthesized from the topic and the stage's query.
C9_RetrievalIsBestEffort ==
  /\ thrown # "FetchError" /\ storedError # "FetchError"
  /\ pc = "synth" => thrown = "none"
  /\ \A k \in 1..Len(ResultFrames) :
       ResultFrames[k].result.content =
         synthesizeContent(topic, searchQueries(topic)[k].query)
  /\ RanWithoutException => Len(ResultFrames) = NumStages

C9_Witness ==
  /\ pc = "result"
  /\ fetchOutcome.kind = "throws"
  /\ i = NumStages - 1
  /\ Len(ResultFrames) = NumStages - 1

\* C10: once the consumer has cancelled, no frame is accepted or delivered,
\* no retrieval call is made and the loop does not go on to another stage.
C10_NothingAfterCancel ==
  [][cancelled =>
       /\ emitted' = emitted
       /\ delivered' = delivered
       /\ retrievalCalls' = retrievalCalls
       /\ i' = i]_vars

C10_Witness ==
  /\ cancelled
  /\ pc = "done"
  /\ thrown = "TypeError"
  /\ Len(retrievalCalls) < NumStages

(***************************************************************************)
(* Properties of the generate-pdf route.                                   *)
(***************************************************************************)
\* the places <<page, position>> of the drawings of a kind
Drawn(kind) ==
  {pk \in UNION {{<<p, k>> : k \in 1..Len(pages[p])} : p \in 1..Len(pages)} :
     pages[pk[1]][pk[2]].kind = kind}

\* the pages on which `SECTION n` is drawn
LabelPages(n) == {pk[1] : pk \in {q \in Drawn("label") : pages[q[1]][q[2]].n = n}}

\* the document was returned
Laid == lpc = "done"

\* C3 as stated: the table of contents has exactly one entry per result,
\* and entry n links to the page on which `SECTION n` is drawn.
C3_TocLinksToSectionStart ==
  Laid =>
    /\ Cardinality(Drawn("tocEntry")) = Len(results)
    /\ \A pk \in Drawn("tocEntry") :
         LabelPages(pages[pk[1]][pk[2]].n) = {pages[pk[1]][pk[2]].m}

\* C6: in the returned document every page from the second on has exactly
\* one footer, `${topic} - Page ${i} of ${totalPages}` with i the page's
\* number and totalPages the number of pages, and page 1 has none.
C6_FooterOnEveryPageButCover ==
  Laid =>
    \A p \in 1..Len(pages) :
      LET f == {k \in 1..Len(pages[p]) : pages[p][k].kind = "footer"}
      IN  IF p = 1
          THEN f = {}
          ELSE /\ Cardinality(f) = 1
               /\ \A k \in f :
                    /\ pages[p][k].n = p
                    /\ pages[p][k].m = Len(pages)
                    /\ pages[p][k].topic = ToStr(pdfTopic)

C6_Witness ==
  /\ Laid
  /\ Len(pages) > Len(results) + 2
  /\ Len(results) = MaxBlocks

\* C7: the cover is on page 1, the header of the table of contents on page
\* 2, and each of the M sections starts a page of its own, in the order of
\* the results: the pages of the SECTION labels are above 2 and strictly
\* increasing, and the label is the first thing on its page; so the
\* document has at least M + 2 pages.
C7_CoverTocThenSections ==
  Laid =>
    /\ {pk[1] : pk \in Drawn("coverTitle")} = {1}
    /\ Drawn("tocHeader") = {<<2, 1>>}
    /\ \A n \in 1..Len(results) :
         /\ Cardinality(LabelPages(n)) = 1
         /\ \A p \in LabelPages(n) :
              /\ p > 2
              /\ pages[p][1].kind = "label"
              /\ n > 1 => \A q \in LabelPages(n - 1) : q < p
    /\ Len(pages) >= Len(results) + 2

C7_Witness ==
  /\ Laid
  /\ Len(results) > TocCapacity
  /\ \E pk \in Drawn("tocEntry") : pk[1] = 3

\* C11 as stated: when a run fails, every frame emitted before the failure
\* has been delivered to the consumer: none was dropped.
C11_EmittedBeforeFailureDelivered == FailureEmitted => delivered = emitted

(***************************************************************************)
(* Properties of the generate-pdf route, continued.                        *)
(***************************************************************************)
\* POST has returned
Returned == lpc \in {"done", "failed"}

\* every section of the results is laid out to its rule and every page but
\* the cover has its footer
AllLaidAndStamped ==
  /\ Len(pages) >= 2
  /\ \A n \in 1..Len(results) :
       \E pk \in Drawn("rule") : pages[pk[1]][pk[2]].n = n
  /\ \A p \in 2..Len(pages) : \E k \in 1..Len(pages[p]) :
       pages[p][k].kind = "footer"

\* C12: POST returns once, and what it returns is either the complete
\* document (status 200, all sections laid out and all footers stamped) or
\* the error of status 500 with the message "Failed to generate PDF" and no
\* document; a request that threw (in request.json(), in the layout or in
\* the serialization) gets the error, whatever was drawn before.
C12_DocumentOrError ==
  /\ ~Returned => response = NoResponse
  /\ Returned =>
       \/ /\ response.status = 200
          /\ response.error = ""
          /\ response.document = pages
          /\ AllLaidAndStamped
          /\ lpc = "done"
       \/ /\ response.status = 500
          /\ response.error = "Failed to generate PDF"
          /\ response.document = <<>>
          /\ lpc = "failed"

\* the serialization of a document of three pages or more threw
C12_Witness ==
  /\ lpc = "failed"
  /\ totalPages >= 3
  /\ footerI > totalPages
  /\ response.status = 500

\* the lower-case letter of an upper-case one
LowerOf(c) ==
  LowerLetters[CHOOSE j \in 1..Len(UpperLetters) : UpperLetters[j] = c]

\* whether a character of a topic is a letter of a-z or A-Z or a digit
Alphanumeric(c) ==
  c \in Range(LowerLetters) \cup Range(UpperLetters) \cup Digits

\* s in lower case with every maximal run of characters that are not
\* alphanumeric replaced by one "_"
RECURSIVE CollapseRuns(_)
CollapseRuns(s) ==
  IF s = <<>> THEN <<>>
  ELSE IF Alphanumeric(Head(s))
       THEN <<IF Head(s) \in Range(UpperLetters)
              THEN LowerOf(Head(s)) ELSE Head(s)>> \o CollapseRuns(Tail(s))
       ELSE IF Len(s) > 1 /\ ~Alphanumeric(s[2])
            THEN CollapseRuns(Tail(s))
            ELSE <<"_">> \o CollapseRuns(Tail(s))

\* C13 as stated: the file name of a returned document is the lower-cased
\* topic with every maximal run of non-alphanumeric characters replaced by
\* a single "_", followed by "_report.pdf".
C13_RunsCollapsed ==
  lpc = "done" =>
    response.filename = CollapseRuns(ToStr(pdfTopic)) \o ReportSuffix

\* C13 as amended: the file name of a returned document is as long as the
\* topic plus the suffix "_report.pdf"; its k-th character is the topic's
\* k-th character in lower case when that is a letter or a digit, and "_"
\* otherwise, so that a run of n other characters gives n separators.
C13_EachCharacterReplaced ==
  lpc = "done" =>
    LET t == ToStr(pdfTopic)
        f == response.filename
    IN  /\ Len(f) = Len(t) + Len(ReportSuffix)
        /\ SubSeq(f, Len(t) + 1, Len(f)) = ReportSuffix
        /\ \A k \in 1..Len(t) :
             f[k] = IF t[k] \in Range(UpperLetters) THEN LowerOf(t[k])
                    ELSE IF Alphanumeric(t[k]) THEN t[k]
                    ELSE "_"

\* a document was returned for a topic with an upper-case letter and with
\* two characters in a row that are not alphanumeric
C13_Witness ==
  /\ lpc = "done"
  /\ LET t == ToStr(pdfTopic)
     IN  /\ \E k \in 1..Len(t) : t[k] \in Range(UpperLetters)
         /\ \E k \in 1..(Len(t) - 1) :
              ~Alphanumeric(t[k]) /\ ~Alphanumeric(t[k + 1])

\* C14: the file name of a returned document is not empty, ends with
\* "_report.pdf", and what stands before that suffix has only the
\* characters a-z, 0-9 and "_", also for a topic of punctuation only and
\* for the empty topic.
C14_FileNameSafe ==
  lpc = "done" =>
    LET f == response.filename
        n == Len(f) - Len(ReportSuffix)
    IN  /\ f # <<>>
        /\ n >= 0
        /\ SubSeq(f, n + 1, Len(f)) = ReportSuffix
        /\ \A k \in 1..n : f[k] \in Range(LowerLetters) \cup Digits \cup {"_"}

\* a document was returned for a topic that has characters and none of
\* them alphanumeric
C14_Witness ==
  /\ lpc = "done"
  /\ pdfTopic.kind = "string"
  /\ pdfTopic.chars # <<>>
  /\ \A k \in 1..Len(pdfTopic.chars) : ~Alphanumeric(pdfTopic.chars[k])
  /\ Len(response.filename) > Len(ReportSuffix)

\* C15: the document returned for an empty list of results has exactly two
\* pages, the cover and the table of contents; page 2 has the header of
\* the table and no entry; the only footer is on page 2 and reads page 2
\* of 2.
C15_EmptyResultsTwoPages ==
  (Laid /\ results = <<>>) =>
    /\ Len(pages) = 2
    /\ response.document = pages
    /\ \E k \in 1..Len(pages[1]) : pages[1][k].kind = "coverTitle"
    /\ Drawn("tocHeader") = {<<2, 1>>}
    /\ Drawn("tocEntry") = {}
    /\ Drawn("label") = {}
    /\ Cardinality(Drawn("footer")) = 1
    /\ \A pk \in Drawn("footer") :
         /\ pk[1] = 2
         /\ pages[pk[1]][pk[2]].n = 2
         /\ pages[pk[1]][pk[2]].m = 2
    /\ totalPages = 2

C15_Witness ==
  /\ Laid
  /\ results = <<>>
  /\ response.status = 200
  /\ Drawn("footer") # {}

\* what the layout draws at the cursor
CursorKinds ==
  {"tocHeader", "tocEntry", "label", "title", "content", "source", "rule"}

\* C16: everything drawn at the cursor on the table of contents and the
\* section pages is drawn at a y between margin and pageHeight - margin;
\* the cursor is never above margin, and it is below pageHeight - margin
\* only after the advance of line 138 and before the checkAndAddPage of
\* line 141, whose step then adds a page and writes the source at margin.
C16_CursorWithinMargins ==
  /\ [](/\ \A p \in 1..Len(pages) : \A k \in 1..Len(pages[p]) :
             pages[p][k].kind \in CursorKinds =>
               /\ margin <= pages[p][k].y
               /\ pages[p][k].y <= pageHeight - margin
        /\ yPosition >= margin
        /\ yPosition > pageHeight - margin => lpc = "source")
  /\ [][yPosition > pageHeight - margin =>
          /\ Len(pages') = Len(pages) + 1
          /\ pages'[Len(pages')][1].kind = "source"
          /\ pages'[Len(pages')][1].y = margin
          /\ yPosition' = margin + 5]_vars

\* the content of a section ended so low that the advance of line 138 took
\* the cursor below the bottom margin
C16_Witness ==
  /\ lpc = "source"
  /\ yPosition > pageHeight - margin
  /\ \E pk \in Drawn("content") : pages[pk[1]][pk[2]].y > pageHeight - margin - 12

\* the requiredSpace of the checkAndAddPage call the next step of the
\* layout makes (lines 93, 119, 133 and 141), 0 when it makes none
RequiredSpaceHere ==
  IF lpc = "toc" /\ index < Len(results) THEN 10
  ELSE IF lpc = "title" /\ line < results[index + 1].titleLines THEN 12
  ELSE IF lpc = "content" /\ line < results[index + 1].contentLines THEN 8
  ELSE IF lpc = "source" THEN 10
  ELSE 0

\* C17: a step that calls checkAndAddPage(requiredSpace) with
\* yPosition + requiredSpace > pageHeight - margin adds exactly one page,
\* which becomes the current one, and draws at yPosition = margin at the top
\* of it; a step that calls it otherwise adds no page, stays on its page
\* and draws at the yPosition it had.
C17_CheckAndAddPageEffect ==
  [][RequiredSpaceHere > 0 =>
       IF yPosition + RequiredSpaceHere > pageHeight - margin
       THEN /\ Len(pages') = Len(pages) + 1
            /\ curPage' = Len(pages')
            /\ pages'[curPage'] # <<>>
            /\ pages'[curPage'][1].y = margin
            /\ \A p \in 1..Len(pages) : pages'[p] = pages[p]
       ELSE /\ Len(pages') = Len(pages)
            /\ curPage' = curPage
            /\ Len(pages'[curPage]) > Len(pages[curPage])
            /\ pages'[curPage][Len(pages[curPage]) + 1].y = yPosition]_vars

\* the call of line 119 broke the page before a title line, and the call
\* of line 141 left the source line on the page of the content
C17_Witness ==
  /\ Laid
  /\ \E p \in 1..Len(pages) :
       pages[p][1].kind = "title" /\ pages[p][1].y = margin
  /\ \E pk \in Drawn("source") :
       pk[2] > 1 /\ pages[pk[1]][pk[2] - 1].kind = "content"

(***************************************************************************)
(* Properties of synthesizeContent.                                        *)
(***************************************************************************)
\* the first words of the eight elements of `queries`
CategoryKeywords ==
  { <<"o", "v", "e", "r", "v", "i", "e", "w">>,
    <<"h", "i", "s", "t", "o", "r", "i", "c", "a", "l">>,
    <<"c", "u", "r", "r", "e", "n", "t">>,
    <<"p", "r", "a", "c", "t", "i", "c", "a", "l">>,
    <<"c", "h", "a", "l", "l", "e", "n", "g", "e", "s">>,
    <<"f", "u", "t", "u", "r", "e">>,
    <<"b", "e", "s", "t">>,
    <<"c", "a", "s", "e">> }

\* the query holds none of the keywords
NoKeyword(q) == \A kw \in CategoryKeywords : ~Includes(q, kw)

\* C18: for every topic, synthesizeContent returns the "overview" template,
\* with the topic at its two places, when the query holds none of the
\* eight keywords.
C18_OverviewWhenNoKeyword ==
  (spc = "returned" /\ NoKeyword(synQuery)) =>
    /\ synOut.key = "overview"
    /\ synOut.args = <<ToStr(synTopic), ToStr(synTopic)>>

\* a query of two words, neither a keyword, one of them near one
C18_Witness ==
  /\ spc = "returned"
  /\ NoKeyword(synQuery)
  /\ Includes(synQuery, <<"h", "i", "s", "t", "o", "r", "y">>)
  /\ Includes(synQuery, <<" ">>)
  /\ synOut.key = "overview"

(***************************************************************************)
(* Properties of the page.                                                 *)
(***************************************************************************)
\* the results of the frames the body delivered, in their order
ServedResults ==
  LET rs == SelectSeq(served, LAMBDA f : f.type = "result")
  IN  [k \in 1..Len(rs) |-> rs[k].result]

\* handleDeepSearch has read the body of its response to its end
StreamEnded == cpc = "idle" /\ lastOutcome \in {"closed", "errored"}

\* C19 as stated: when the handler has read the stream to its end,
\* searchResults is the sequence of the results of the frames the stream
\* delivered, however the reads cut its text in chunks.
C19_ChunkingLosesNoResult == StreamEnded => searchResults = ServedResults

\* C20 as stated: when a call of handleDeepSearch has ended, in whichever
\* way, isSearching is false.
C20_SearchingClearedAtEnd ==
  (cpc = "idle" /\ lastOutcome # "none") => ~isSearching

\* C21 as stated: every generate-pdf request the page sends carries the
\* topic of the search that produced the searchResults it carries.
C21_RequestTopicIsSearchedTopic ==
  [][(gpc = "idle" /\ gpc' = "fetching") =>
       /\ pdfRequest'.results = searchResults
       /\ pdfRequest'.topic = sentTopic]_vars

=============================================================================
